---- MODULE Spec2Model ----
(***************************************************************************)
(* Model of the Unisender client hooks (useUnisender for the newsletter    *)
(* API and useUnisender for the Unisender Go API) and of the               *)
(* UnisenderTestButton banner that consumes the Go hook.                   *)
(*                                                                         *)
(* JavaScript values are modelled by strings: Undefined and Null are two   *)
(* reserved strings different from every message, "" is the empty string.  *)
(***************************************************************************)
EXTENDS Integers, Sequences, FiniteSets, TLC

VARIABLES
    hook,        \* which hook module this instance is: "newsletter" or "go"
    isLoading,   \* useState(false) of the hook
    error,       \* useState<string | null>(null) of the hook
    calls,       \* the action calls made on the instance, in start order
    events,      \* the starts and resolutions of the calls, in order
    requests     \* the fetch requests issued, in order

VARIABLES
    mounted,      \* the banner's first render and mount effect have run
    storageKey,   \* prop storageKey of the banner
    forceShow,    \* prop forceShow of the banner
    isConfigured, \* useState(true): the banner renders null while it is true
    email,        \* useState(""), the input's text, a sequence of characters
    status,       \* useState("idle"): "idle", "success" or "error"
    message,      \* useState("")
    handlers,     \* per sendTest call of the banner: what handleTest captured
    timers,       \* pending setTimeout(..., 3000) callbacks
    localStorage, \* the browser's local storage: key -> value, Null if absent
    storageLog,   \* the getItem / setItem calls made, in order
    propChanges   \* how many times the parent changed the banner's props

VARIABLES
    formProps,     \* props of SubscribeForm: showNameField, callbacks given
    formEmail,     \* useState("") email of the form
    formName,      \* useState("") name of the form
    formIsLoading, \* useState(false) isLoading of the form
    formIsSuccess, \* useState(false) isSuccess of the form
    formError,     \* useState<string | null>(null) error of the form
    submits,       \* the submissions of the form, each with its request
    callbacks      \* the calls of onSuccess / onError made, in order

hookVars == <<hook, isLoading, error, calls, events, requests>>

bannerVars == <<mounted, storageKey, forceShow, isConfigured, email, status,
                message, handlers, timers, localStorage, storageLog,
                propChanges>>

formVars == <<formProps, formEmail, formName, formIsLoading, formIsSuccess,
              formError, submits, callbacks>>

vars == <<hook, isLoading, error, calls, events, requests,
          mounted, storageKey, forceShow, isConfigured, email, status,
          message, handlers, timers, localStorage, storageLog, propChanges,
          formProps, formEmail, formName, formIsLoading, formIsSuccess,
          formError, submits, callbacks>>

----------------------------------------------------------------------------
(* Bounds *)

\* calls made on one hook instance in a behaviour
MaxCalls == 2

\* changes of the banner's props (storageKey, forceShow) in a behaviour
MaxPropChanges == 2

\* submissions of one SubscribeForm in a behaviour
MaxSubmits == 2

----------------------------------------------------------------------------
(* JavaScript values *)

Undefined == "<undefined>"
Null == "<null>"

\* a value that `||` skips: undefined, null and the empty string
Falsy(v) == v \in {Undefined, Null, ""}

\* a || b
OrElse(a, b) == IF Falsy(a) THEN b ELSE a

----------------------------------------------------------------------------
(* The two hooks and their actions *)

NewsletterActions == {"subscribe", "unsubscribe"}
GoActions == {"sendEmail", "sendTemplate", "sendTest"}
Actions == NewsletterActions \cup GoActions

ActionsOf(h) == IF h = "newsletter" THEN NewsletterActions ELSE GoActions

\* sendTemplate posting to the URL of sendEmail
QueryActionCopied(a) ==
    CASE a = "subscribe" -> "subscribe"
      [] a = "unsubscribe" -> "unsubscribe"
      [] a = "sendEmail" -> "send"
      [] a = "sendTemplate" -> "send"
      [] a = "sendTest" -> "test"

\* the `action` query discriminator of the request URL
QueryAction(a) ==
    CASE a = "subscribe" -> "subscribe"
      [] a = "unsubscribe" -> "unsubscribe"
      [] a = "sendEmail" -> "send"
      [] a = "sendTemplate" -> "send-template"
      [] a = "sendTest" -> "test"

\* the message of `setError(data.error || "... failed")`
FallbackMessage(a) ==
    CASE a = "subscribe" -> "Subscribe failed"
      [] a = "unsubscribe" -> "Unsubscribe failed"
      [] a = "sendEmail" -> "Send failed"
      [] a = "sendTemplate" -> "Send failed"
      [] a = "sendTest" -> "Test failed"

\* the catch block's message for a thrown value that is not an Error
NetworkErrorMessage == "Network error"

----------------------------------------------------------------------------
(* What the network can answer to one request *)

\* messages of the Error a rejected fetch carries
FetchErrorMessages == {"", "Failed to fetch"}

\* message of the SyntaxError response.json() rejects with on a non-JSON body
SyntaxErrorMessage == "Unexpected token < in JSON"

\* message of the TypeError a property read on `null` throws
TypeErrorMessage == "Cannot read properties of null"

\* the `error` field of a JSON object body
ServerErrors == {Undefined, "", "bad subject"}

\* the person_id / message / job_id field of a JSON object body
ServerPayloads == {"42"}

NoOutcome ==
    [kind |-> "none", isError |-> FALSE, message |-> Undefined,
     ok |-> FALSE, body |-> "none", error |-> Undefined, payload |-> Undefined]

\* fetch() rejects: with an Error, or with a thrown value that is no Error
Rejections ==
    {[NoOutcome EXCEPT !.kind = "reject", !.isError = TRUE, !.message = m] :
        m \in FetchErrorMessages}
    \cup {[NoOutcome EXCEPT !.kind = "reject"]}

\* fetch() resolves with a response: 2xx or not, the body not JSON, JSON null,
\* or a JSON object
Responses ==
    {[NoOutcome EXCEPT !.kind = "response", !.ok = k, !.body = b] :
        k \in BOOLEAN, b \in {"notjson", "null"}}
    \cup {[NoOutcome EXCEPT !.kind = "response", !.ok = k, !.body = "object",
                            !.error = e, !.payload = p] :
            k \in BOOLEAN, e \in ServerErrors, p \in ServerPayloads}

Outcomes == Rejections \cup Responses

----------------------------------------------------------------------------
(* The body of an action, after `await fetch(...)` *)

NoThrow == [thrown |-> FALSE, isError |-> FALSE, message |-> Undefined]

\* what the try block throws on outcome o, if anything: the rejection of
\* fetch, the SyntaxError of response.json(), or the TypeError of reading
\* data.error / data.person_id on null
Thrown(o) ==
    CASE o.kind = "reject" ->
            [thrown |-> TRUE, isError |-> o.isError, message |-> o.message]
      [] o.kind = "response" /\ o.body = "notjson" ->
            [thrown |-> TRUE, isError |-> TRUE, message |-> SyntaxErrorMessage]
      [] o.kind = "response" /\ o.body = "null" ->
            [thrown |-> TRUE, isError |-> TRUE, message |-> TypeErrorMessage]
      [] OTHER -> NoThrow

\* the catch block ignoring the exception's own message
CatchMessageGeneric(t) == NetworkErrorMessage

\* const message = err instanceof Error ? err.message : "Network error"
CatchMessage(t) == IF t.isError THEN t.message ELSE NetworkErrorMessage

\* setError(data.error) replaced by the fallback text alone
DisplayedErrorFallbackOnly(a, o) == FallbackMessage(a)

\* the value the failing branch hands to setError: data.error || fallback
DisplayedError(a, o) == OrElse(o.error, FallbackMessage(a))

\* the `error` of the result of the !response.ok branch: data.error
ReturnedError(a, o) == o.error

\* the result the promise resolves to
ResultOf(a, o) ==
    IF Thrown(o).thrown
    THEN [success |-> FALSE, error |-> CatchMessage(Thrown(o)),
          payload |-> Undefined]
    ELSE IF ~o.ok
    THEN [success |-> FALSE, error |-> ReturnedError(a, o),
          payload |-> Undefined]
    ELSE [success |-> TRUE, error |-> Undefined, payload |-> o.payload]

\* a success path that also clears the error: setError(null) before return
ErrorAfterClearing(a, o, e) ==
    IF Thrown(o).thrown THEN CatchMessage(Thrown(o))
    ELSE IF ~o.ok THEN DisplayedError(a, o)
    ELSE Null

\* the `error` state after the action's body ran on outcome o, from state e:
\* the catch block and the !response.ok branch call setError, the success
\* path does not
ErrorAfter(a, o, e) ==
    IF Thrown(o).thrown THEN CatchMessage(Thrown(o))
    ELSE IF ~o.ok THEN DisplayedError(a, o)
    ELSE e

\* setIsLoading(false) in the catch block and the failing branch only
LoadingAfterFailureOnly(a, o) == ~Thrown(o).thrown /\ o.ok

\* finally { setIsLoading(false) }
LoadingAfter(a, o) == FALSE

----------------------------------------------------------------------------
(* State and actions of a hook instance *)

Call(a, p) == [action |-> a, params |-> p, state |-> "inflight",
               outcome |-> NoOutcome]

Started(i) == [type |-> "start", call |-> i]
Resolved(i) == [type |-> "resolve", call |-> i]

InFlight(i) == i \in 1..Len(calls) /\ calls[i].state = "inflight"
Done(i) == i \in 1..Len(calls) /\ calls[i].state = "done"

Result(i) == ResultOf(calls[i].action, calls[i].outcome)

\* an action that does not touch the flags before the request
LoadingAtStartKept == isLoading
ErrorAtStartKept == error

\* the values setIsLoading / setError get before the request is issued
LoadingAtStart == TRUE
ErrorAtStart == Null

\* the synchronous part of an action: setIsLoading(true), setError(null),
\* then fetch(`${apiUrl}?action=...`)
Invoke(a, p) ==
    /\ a \in ActionsOf(hook)
    /\ Len(calls) < MaxCalls
    /\ isLoading' = LoadingAtStart
    /\ error' = ErrorAtStart
    /\ calls' = Append(calls, Call(a, p))
    /\ requests' = Append(requests,
                          [call |-> Len(calls) + 1, action |-> QueryAction(a)])
    /\ events' = Append(events, Started(Len(calls) + 1))
    /\ UNCHANGED hook

\* the rest of an action, once the network answered call i with outcome o
Settle(i, o) ==
    /\ InFlight(i)
    /\ error' = ErrorAfter(calls[i].action, o, error)
    /\ isLoading' = LoadingAfter(calls[i].action, o)
    /\ calls' = [calls EXCEPT ![i].state = "done", ![i].outcome = o]
    /\ events' = Append(events, Resolved(i))
    /\ UNCHANGED <<hook, requests>>

HookParams == {[to_email |-> <<"a", "@", "b">>]}

HookInit ==
    /\ isLoading = FALSE
    /\ error = Null
    /\ calls = <<>>
    /\ events = <<>>
    /\ requests = <<>>

----------------------------------------------------------------------------
(* UnisenderTestButton *)

DefaultStorageKey == "unisender_configured"
StorageKeys == {DefaultStorageKey, "other_key"}

\* what localStorage.getItem can return for a key
StoredValues == {Null, "true", "false"}

\* texts typed into the input
EmailInputs == {<<>>, <<" ">>, <<"a">>, <<" ", "a", "@", "b", " ">>}

\* the answers to a test send the banner is run on: one of each kind that
\* handleTest tells apart (a success, a server error with and without a
\* message, a transport failure)
TestOutcomes ==
    {o \in Outcomes :
        /\ o.kind = "reject" => ~o.isError
        /\ o.kind = "response" =>
                /\ o.body = "object"
                /\ o.error /= ""
                /\ o.ok => o.error = Undefined}

RECURSIVE TrimStart(_)
TrimStart(s) ==
    IF s /= <<>> /\ Head(s) = " " THEN TrimStart(Tail(s)) ELSE s

RECURSIVE TrimEnd(_)
TrimEnd(s) ==
    IF s /= <<>> /\ s[Len(s)] = " "
    THEN TrimEnd(SubSeq(s, 1, Len(s) - 1))
    ELSE s

\* String.prototype.trim
Trim(s) == TrimEnd(TrimStart(s))

\* a check for "@" that accepts every text
IncludesAlways(s, c) == TRUE

\* String.prototype.includes, for a one-character needle
Includes(s, c) == \E i \in 1..Len(s) : s[i] = c

\* the banner's messages (the source's texts are Russian)
MsgEnterEmail == "Enter email"
MsgBadFormat == "Invalid email format"
MsgSent == "Test email sent! Check your mail."
MsgSendFailed == "Send error"

\* the component returns null while isConfigured is true
BannerVisible == mounted /\ ~isConfigured

GetItem(k) == [op |-> "getItem", key |-> k]
SetItem(k) == [op |-> "setItem", key |-> k]

Reads == {n \in 1..Len(storageLog) : storageLog[n].op = "getItem"}
Writes == {n \in 1..Len(storageLog) : storageLog[n].op = "setItem"}

\* the effect with the negation of forceShow dropped
ConfiguredByForce(configured, force) == configured = "true" /\ force

\* setIsConfigured(configured === "true" && !forceShow)
ConfiguredBy(configured, force) == configured = "true" /\ ~force

\* the mount effect: localStorage.getItem(storageKey), then setIsConfigured
CheckStorage(k, f) ==
    /\ storageLog' = Append(storageLog, GetItem(k))
    /\ isConfigured' = ConfiguredBy(localStorage[k], f)

\* first render and the effect after it
Mount ==
    /\ ~mounted
    /\ mounted' = TRUE
    /\ CheckStorage(storageKey, forceShow)
    /\ UNCHANGED <<storageKey, forceShow, email, status, message, handlers,
                   timers, localStorage, propChanges>>
    /\ UNCHANGED hookVars
    /\ UNCHANGED formVars

\* the parent re-renders the banner with other props: a dependency of the
\* effect changed, so the effect runs again
SetProps ==
    /\ mounted
    /\ propChanges < MaxPropChanges
    /\ propChanges' = propChanges + 1
    /\ \E k \in StorageKeys, f \in BOOLEAN :
        /\ <<k, f>> /= <<storageKey, forceShow>>
        /\ storageKey' = k
        /\ forceShow' = f
        /\ CheckStorage(k, f)
    /\ UNCHANGED <<mounted, email, status, message, handlers, timers,
                   localStorage>>
    /\ UNCHANGED hookVars
    /\ UNCHANGED formVars

\* onChange of the input, which is disabled while isLoading
SetEmail ==
    /\ BannerVisible
    /\ ~isLoading
    /\ \E e \in EmailInputs : e /= email /\ email' = e
    /\ UNCHANGED <<mounted, storageKey, forceShow, isConfigured, status,
                   message, handlers, timers, localStorage, storageLog,
                   propChanges>>
    /\ UNCHANGED hookVars
    /\ UNCHANGED formVars

\* handleTest up to `await sendTest(...)`: a click on the button, which is
\* disabled while isLoading
HandleTest ==
    /\ BannerVisible
    /\ ~isLoading
    /\ IF Trim(email) = <<>>
       THEN /\ status' = "error"
            /\ message' = MsgEnterEmail
            /\ UNCHANGED <<handlers>>
            /\ UNCHANGED hookVars
       ELSE IF ~Includes(email, "@")
       THEN /\ status' = "error"
            /\ message' = MsgBadFormat
            /\ UNCHANGED <<handlers>>
            /\ UNCHANGED hookVars
       ELSE /\ status' = "idle"
            /\ message' = ""
            /\ Invoke("sendTest", [to_email |-> Trim(email)])
            /\ handlers' = Append(handlers, [storageKey |-> storageKey])
    /\ UNCHANGED <<mounted, storageKey, forceShow, isConfigured, email,
                   timers, localStorage, storageLog, propChanges>>
    /\ UNCHANGED formVars

\* a success branch that writes the flag only when it is not stored yet
OnTestSuccessOnce(i) ==
    /\ status' = "success"
    /\ message' = MsgSent
    /\ IF localStorage[handlers[i].storageKey] = "true"
       THEN UNCHANGED <<localStorage, storageLog>>
       ELSE /\ localStorage' =
                    [localStorage EXCEPT ![handlers[i].storageKey] = "true"]
            /\ storageLog' =
                    Append(storageLog, SetItem(handlers[i].storageKey))
    /\ timers' = timers + 1
    /\ UNCHANGED isConfigured

\* what handleTest does with a successful result
OnTestSuccess(i) ==
    /\ status' = "success"
    /\ message' = MsgSent
    /\ localStorage' = [localStorage EXCEPT ![handlers[i].storageKey] = "true"]
    /\ storageLog' = Append(storageLog, SetItem(handlers[i].storageKey))
    /\ timers' = timers + 1
    /\ UNCHANGED isConfigured

\* a failure branch reached after the flag was written: setItem placed
\* before the test of result.success
OnTestFailureWriting(i, r) ==
    /\ status' = "error"
    /\ message' = OrElse(r.error, MsgSendFailed)
    /\ localStorage' = [localStorage EXCEPT ![handlers[i].storageKey] = "true"]
    /\ storageLog' = Append(storageLog, SetItem(handlers[i].storageKey))
    /\ UNCHANGED <<timers, isConfigured>>

\* what handleTest does with a failed result
OnTestFailure(i, r) ==
    /\ status' = "error"
    /\ message' = OrElse(r.error, MsgSendFailed)
    /\ UNCHANGED <<localStorage, storageLog, timers, isConfigured>>

\* sendTest resolves and handleTest continues after the await
HandleTestResult ==
    \E i \in 1..Len(calls) : \E o \in TestOutcomes :
        /\ mounted
        /\ Settle(i, o)
        /\ IF ResultOf(calls[i].action, o).success
           THEN OnTestSuccess(i)
           ELSE OnTestFailure(i, ResultOf(calls[i].action, o))
        /\ UNCHANGED <<mounted, storageKey, forceShow, email, handlers,
                       propChanges>>
        /\ UNCHANGED formVars

\* the callback of setTimeout(() => setIsConfigured(true), 3000)
HideTimer ==
    /\ timers > 0
    /\ timers' = timers - 1
    /\ isConfigured' = TRUE
    /\ UNCHANGED <<mounted, storageKey, forceShow, email, status, message,
                   handlers, localStorage, storageLog, propChanges>>
    /\ UNCHANGED hookVars
    /\ UNCHANGED formVars

\* no SubscribeForm is rendered
NoForm ==
    /\ formProps = [showNameField |-> FALSE, onSuccess |-> FALSE,
                    onError |-> FALSE]
    /\ formEmail = ""
    /\ formName = ""
    /\ formIsLoading = FALSE
    /\ formIsSuccess = FALSE
    /\ formError = Null
    /\ submits = <<>>
    /\ callbacks = <<>>

BannerInit ==
    /\ hook = "go"
    /\ HookInit
    /\ NoForm
    /\ mounted = FALSE
    /\ storageKey = DefaultStorageKey
    /\ forceShow \in BOOLEAN
    /\ isConfigured = TRUE
    /\ email = <<>>
    /\ status = "idle"
    /\ message = ""
    /\ handlers = <<>>
    /\ timers = 0
    /\ localStorage \in [StorageKeys -> StoredValues]
    /\ storageLog = <<>>
    /\ propChanges = 0

BannerNext ==
    \/ Mount
    \/ SetProps
    \/ SetEmail
    \/ HandleTest
    \/ HandleTestResult
    \/ HideTimer

BannerSpec == BannerInit /\ [][BannerNext]_vars

----------------------------------------------------------------------------
(* A hook instance called by application code *)

subscribe ==
    /\ \E p \in HookParams : Invoke("subscribe", p)
    /\ UNCHANGED bannerVars
    /\ UNCHANGED formVars

unsubscribe ==
    /\ \E p \in HookParams : Invoke("unsubscribe", p)
    /\ UNCHANGED bannerVars
    /\ UNCHANGED formVars

sendEmail ==
    /\ \E p \in HookParams : Invoke("sendEmail", p)
    /\ UNCHANGED bannerVars
    /\ UNCHANGED formVars

sendTemplate ==
    /\ \E p \in HookParams : Invoke("sendTemplate", p)
    /\ UNCHANGED bannerVars
    /\ UNCHANGED formVars

sendTest ==
    /\ \E p \in HookParams : Invoke("sendTest", p)
    /\ UNCHANGED bannerVars
    /\ UNCHANGED formVars

Resolve ==
    /\ \E i \in 1..Len(calls) : \E o \in Outcomes : Settle(i, o)
    /\ UNCHANGED bannerVars
    /\ UNCHANGED formVars

\* no banner is rendered
NoBanner ==
    /\ mounted = FALSE
    /\ storageKey = DefaultStorageKey
    /\ forceShow = FALSE
    /\ isConfigured = TRUE
    /\ email = <<>>
    /\ status = "idle"
    /\ message = ""
    /\ handlers = <<>>
    /\ timers = 0
    /\ localStorage = [k \in StorageKeys |-> Null]
    /\ storageLog = <<>>
    /\ propChanges = 0

Init ==
    /\ hook \in {"newsletter", "go"}
    /\ HookInit
    /\ NoBanner
    /\ NoForm

Next ==
    \/ subscribe
    \/ unsubscribe
    \/ sendEmail
    \/ sendTemplate
    \/ sendTest
    \/ Resolve

Spec == Init /\ [][Next]_vars

----------------------------------------------------------------------------
(* SubscribeForm *)

\* texts the visitor can leave in the email input and in the name input
FormEmails == {"", "a@b.c"}
FormNames == {"", "Ann"}

\* message of the Error built by `throw new Error(data.error || ...)`
SubscribeFailedMessage == "Subscribe failed"

\* message of the Error a callback given by the parent can throw
CallbackErrorMessage == "callback failed"

\* what a call of onSuccess / onError does: it returns, or it throws an Error
CallbackResults ==
    {NoThrow,
     [thrown |-> TRUE, isError |-> TRUE, message |-> CallbackErrorMessage]}

\* props of a form: whether the name input is shown, and which callbacks
\* the parent passes
FormProps == [showNameField : BOOLEAN, onSuccess : BOOLEAN, onError : BOOLEAN]

\* the form is rendered, and not replaced by the success message
FormVisible == ~formIsSuccess

\* <Button type="submit" disabled={isLoading || !email}>
SubmitEnabled == FormVisible /\ ~formIsLoading /\ ~Falsy(formEmail)

\* body: JSON.stringify({ email, name: showNameField ? name : undefined })
SubmitRequest ==
    [action |-> "subscribe",
     email |-> formEmail,
     name |-> IF formProps.showNameField THEN formName ELSE Undefined]

\* what the try block of handleSubmit throws on outcome o before it reaches
\* setIsSuccess: the rejection of fetch, the SyntaxError of response.json(),
\* the TypeError of data.error on null, or the Error it builds on a non-2xx
FormThrown(o) ==
    CASE o.kind = "reject" ->
            [thrown |-> TRUE, isError |-> o.isError, message |-> o.message]
      [] o.kind = "response" /\ o.body = "notjson" ->
            [thrown |-> TRUE, isError |-> TRUE, message |-> SyntaxErrorMessage]
      [] o.kind = "response" /\ ~o.ok /\ o.body = "null" ->
            [thrown |-> TRUE, isError |-> TRUE, message |-> TypeErrorMessage]
      [] o.kind = "response" /\ ~o.ok ->
            [thrown |-> TRUE, isError |-> TRUE,
             message |-> OrElse(o.error, SubscribeFailedMessage)]
      [] OTHER -> NoThrow

\* what reaches the catch block: the exception of the request, or the one
\* onSuccess?.() throws (result s) at the end of the try block
FormCaught(o, s) ==
    IF FormThrown(o).thrown THEN FormThrown(o)
    ELSE IF formProps.onSuccess THEN s
    ELSE NoThrow

CallbackCall(i, c, a, r) ==
    [submit |-> i, callback |-> c, argument |-> a, threw |-> r.thrown]

\* the calls of the callbacks made by the continuation of submission i
FormCallbacks(i, o, s, e) ==
    (IF ~FormThrown(o).thrown /\ formProps.onSuccess
        THEN <<CallbackCall(i, "onSuccess", Undefined, s)>> ELSE <<>>)
    \o (IF FormCaught(o, s).thrown /\ formProps.onError
        THEN <<CallbackCall(i, "onError", CatchMessage(FormCaught(o, s)), e)>>
        ELSE <<>>)

\* onChange of the email input
SetFormEmail(v) ==
    /\ FormVisible
    /\ ~formIsLoading
    /\ formEmail' = v
    /\ UNCHANGED <<formProps, formName, formIsLoading, formIsSuccess,
                   formError, submits, callbacks>>
    /\ UNCHANGED hookVars
    /\ UNCHANGED bannerVars

\* onChange of the name input
SetFormName(v) ==
    /\ FormVisible
    /\ formProps.showNameField
    /\ ~formIsLoading
    /\ formName' = v
    /\ UNCHANGED <<formProps, formEmail, formIsLoading, formIsSuccess,
                   formError, submits, callbacks>>
    /\ UNCHANGED hookVars
    /\ UNCHANGED bannerVars

\* handleSubmit up to `await fetch(...)`
HandleSubmit ==
    /\ SubmitEnabled
    /\ Len(submits) < MaxSubmits
    /\ formIsLoading' = TRUE
    /\ formError' = Null
    /\ submits' = Append(submits, [state |-> "inflight",
                                   request |-> SubmitRequest,
                                   outcome |-> NoOutcome])
    /\ UNCHANGED <<formProps, formEmail, formName, formIsSuccess, callbacks>>
    /\ UNCHANGED hookVars
    /\ UNCHANGED bannerVars

\* handleSubmit after `await fetch(...)`: the request of submission i is
\* answered with o, onSuccess does s and onError does e when they are called
HandleSubmitResult(i, o, s, e) ==
    /\ i \in 1..Len(submits)
    /\ submits[i].state = "inflight"
    /\ IF FormThrown(o).thrown
          THEN UNCHANGED <<formIsSuccess, formEmail, formName>>
          ELSE /\ formIsSuccess' = TRUE
               /\ formEmail' = ""
               /\ formName' = ""
    /\ IF FormCaught(o, s).thrown
          THEN formError' = CatchMessage(FormCaught(o, s))
          ELSE UNCHANGED formError
    /\ callbacks' = callbacks \o FormCallbacks(i, o, s, e)
    /\ formIsLoading' = FALSE
    /\ submits' = [submits EXCEPT ![i].state = "done", ![i].outcome = o]
    /\ UNCHANGED formProps
    /\ UNCHANGED hookVars
    /\ UNCHANGED bannerVars

FormInit ==
    /\ hook = "newsletter"
    /\ HookInit
    /\ NoBanner
    /\ formProps \in FormProps
    /\ formEmail = ""
    /\ formName = ""
    /\ formIsLoading = FALSE
    /\ formIsSuccess = FALSE
    /\ formError = Null
    /\ submits = <<>>
    /\ callbacks = <<>>

FormNext ==
    \/ \E v \in FormEmails : SetFormEmail(v)
    \/ \E v \in FormNames : SetFormName(v)
    \/ HandleSubmit
    \/ \E i \in 1..MaxSubmits : \E o \in Outcomes :
            \E s \in CallbackResults : \E e \in CallbackResults :
                HandleSubmitResult(i, o, s, e)

FormSpec == FormInit /\ [][FormNext]_vars

----------------------------------------------------------------------------
(* Properties of the hooks *)

\* call i resolves in this step
JustResolved(i) == InFlight(i) /\ calls'[i].state = "done"

\* a non-2xx response whose JSON body has an `error` field
ServerErrorAnswer(o) ==
    o.kind = "response" /\ o.body = "object" /\ ~o.ok /\ o.error /= Undefined

\* fetch threw, or the response body is not JSON
TransportFailure(o) ==
    o.kind = "reject" \/ (o.kind = "response" /\ o.body = "notjson")

\* a 2xx response with a JSON body (an object, or null)
SuccessAnswer(o) ==
    o.kind = "response" /\ o.ok /\ o.body \in {"object", "null"}

\* the message a call's resolution displays: Null for a success
CallMessage(i) ==
    LET a == calls[i].action
        o == calls[i].outcome
    IN  CASE o.kind = "reject" /\ o.isError -> o.message
          [] o.kind = "reject" /\ ~o.isError -> "Network error"
          [] o.kind = "response" /\ o.body = "notjson" -> SyntaxErrorMessage
          [] o.kind = "response" /\ o.body = "null" -> TypeErrorMessage
          [] o.kind = "response" /\ o.body = "object" /\ ~o.ok ->
                IF o.error \in {Undefined, ""}
                THEN FallbackMessage(a) ELSE o.error
          [] OTHER -> Null

LastEvent == events[Len(events)]

StartIndex(i) == CHOOSE n \in 1..Len(events) : events[n] = Started(i)
ResolveIndex(i) == CHOOSE n \in 1..Len(events) : events[n] = Resolved(i)

\* two resolved calls that were in flight at the same time
Overlapped(i, j) ==
    /\ i /= j /\ Done(i) /\ Done(j)
    /\ StartIndex(i) < ResolveIndex(j)
    /\ StartIndex(j) < ResolveIndex(i)

\* calls i and j overlapped, both have resolved, j last and just now
BothResolved(i, j) ==
    /\ i \in 1..Len(calls) /\ j \in 1..Len(calls)
    /\ Overlapped(i, j)
    /\ LastEvent = Resolved(j)

\* C1 (as claimed): for every hook action, a non-2xx response whose JSON body
\* has an `error` field resolves to success = false with result.error equal
\* to the server's string, and the hook's error state is set to that string.
C1_ServerErrorVerbatim ==
    [][\A i \in 1..Len(calls) :
        (JustResolved(i) /\ ServerErrorAnswer(calls'[i].outcome)) =>
            LET o == calls'[i].outcome
                r == ResultOf(calls[i].action, o)
            IN  /\ r.success = FALSE
                /\ r.error = o.error
                /\ error' = o.error]_vars

\* C1 (amended): the result carries the server's `error` string as it is; the
\* hook's error state is set to that string when it is not empty, and to the
\* action's fallback message when it is the empty string.
C1_ServerErrorOrFallback ==
    [][\A i \in 1..Len(calls) :
        (JustResolved(i) /\ ServerErrorAnswer(calls'[i].outcome)) =>
            LET o == calls'[i].outcome
                r == ResultOf(calls[i].action, o)
            IN  /\ r.success = FALSE
                /\ r.error = o.error
                /\ error' = IF o.error = ""
                            THEN FallbackMessage(calls[i].action)
                            ELSE o.error]_vars

C1_Witness ==
    \E i \in 1..Len(calls) :
        /\ Done(i)
        /\ ServerErrorAnswer(calls[i].outcome)
        /\ calls[i].outcome.error = "bad subject"
        /\ Result(i) = [success |-> FALSE, error |-> "bad subject",
                        payload |-> Undefined]
        /\ error = "bad subject"

\* C2 (as claimed): for every hook action, a transport failure resolves to
\* success = false with a non-empty generic network-error message, the same
\* whatever exception was raised.
C2_GenericNetworkError ==
    [][\A i \in 1..Len(calls) :
        (JustResolved(i) /\ TransportFailure(calls'[i].outcome)) =>
            LET r == ResultOf(calls[i].action, calls'[i].outcome)
            IN  /\ r.success = FALSE
                /\ r.error = "Network error"
                /\ r.error /= ""]_vars

\* C2 (amended): a transport failure resolves to success = false whose error
\* is the raised Error's own message (the SyntaxError's for a non-JSON body;
\* possibly empty), and "Network error" only when the thrown value is not an
\* Error.
C2_ExceptionMessage ==
    [][\A i \in 1..Len(calls) :
        (JustResolved(i) /\ TransportFailure(calls'[i].outcome)) =>
            LET o == calls'[i].outcome
                r == ResultOf(calls[i].action, o)
            IN  /\ r.success = FALSE
                /\ r.error =
                     IF o.kind = "response" THEN SyntaxErrorMessage
                     ELSE IF o.isError THEN o.message
                     ELSE "Network error"]_vars

C2_Witness ==
    \E i \in 1..Len(calls) :
        /\ Done(i)
        /\ calls[i].outcome.kind = "reject"
        /\ calls[i].outcome.isError
        /\ calls[i].outcome.message = "Failed to fetch"
        /\ Result(i).success = FALSE
        /\ Result(i).error = "Failed to fetch"

\* C3: no hook action rejects: every failing call resolves to a result
\* {success: false, error} that carries an error string, and the hook's error
\* state is updated to a non-null message.
C3_FailureCarriesError ==
    [][\A i \in 1..Len(calls) :
        LET r == ResultOf(calls[i].action, calls'[i].outcome)
        IN  (JustResolved(i) /\ ~r.success) =>
                /\ r.error \notin {Undefined, Null}
                /\ error' /= Null]_vars

\* C4 (as claimed): a call answered 2xx with a JSON body resolves to
\* success = true, and isLoading is false once it has resolved.
C4_SuccessOnJsonBody ==
    [][\A i \in 1..Len(calls) :
        (JustResolved(i) /\ SuccessAnswer(calls'[i].outcome)) =>
            /\ ResultOf(calls[i].action, calls'[i].outcome).success
            /\ isLoading' = FALSE]_vars

\* C4 (amended): a call answered 2xx with a JSON body other than null
\* resolves to success = true; a 2xx answer whose body is JSON null resolves
\* to success = false; isLoading is false once the call has resolved.
C4_SuccessOnJsonObject ==
    [][\A i \in 1..Len(calls) :
        (JustResolved(i) /\ SuccessAnswer(calls'[i].outcome)) =>
            /\ ResultOf(calls[i].action, calls'[i].outcome).success
                    = (calls'[i].outcome.body = "object")
            /\ isLoading' = FALSE]_vars

C4_Witness ==
    \E i \in 1..Len(calls) :
        /\ Done(i)
        /\ SuccessAnswer(calls[i].outcome)
        /\ calls[i].outcome.body = "object"
        /\ Result(i) = [success |-> TRUE, error |-> Undefined,
                        payload |-> "42"]
        /\ LastEvent = Resolved(i)
        /\ isLoading = FALSE

\* C5: every action call clears the previous error before proceeding: the
\* step that starts a call sets error to null and isLoading to true and
\* issues the call's request.
C5_StartClearsError ==
    [][Len(calls') > Len(calls) =>
        /\ error' = Null
        /\ isLoading' = TRUE
        /\ Len(requests') = Len(requests) + 1
        /\ requests'[Len(requests')].call = Len(calls')]_vars

\* a call started after an earlier call had failed
C5_Witness ==
    /\ Len(calls) = 2
    /\ Done(1)
    /\ ~Result(1).success
    /\ InFlight(2)
    /\ LastEvent = Started(2)
    /\ error = Null
    /\ isLoading = TRUE

\* C6 (as claimed): when two calls overlap, after both have resolved
\* isLoading is false and error is the last-resolving call's error message
\* if it failed, or null if it succeeded.
C6_LastResolvedWins ==
    \A i, j \in 1..Len(calls) :
        BothResolved(i, j) =>
            /\ isLoading = FALSE
            /\ error = CallMessage(j)

\* the resolutions of failed calls since the most recent start of a call
FailuresSinceLastStart ==
    {n \in 1..Len(events) :
        /\ events[n].type = "resolve"
        /\ ~Result(events[n].call).success
        /\ \A m \in n..Len(events) : events[m].type = "resolve"}

LastFailureMessage ==
    IF FailuresSinceLastStart = {} THEN Null
    ELSE CallMessage(events[CHOOSE n \in FailuresSinceLastStart :
                \A m \in FailuresSinceLastStart : m <= n].call)

\* C6 (amended): when two calls overlap, after both have resolved isLoading
\* is false and error is the message of the call that failed last since the
\* most recent start of a call, null if none failed: a last-resolving call
\* that succeeded leaves the other call's error message in place.
C6_LastFailureWins ==
    \A i, j \in 1..Len(calls) :
        BothResolved(i, j) =>
            /\ isLoading = FALSE
            /\ error = LastFailureMessage

\* the call that resolved last succeeded, the error shown is the other's
C6_Witness ==
    \E i, j \in 1..Len(calls) :
        /\ BothResolved(i, j)
        /\ Result(j).success
        /\ ~Result(i).success
        /\ error = CallMessage(i)
        /\ error /= Null
        /\ isLoading = FALSE

\* the most recently started call
MostRecent == Len(calls)

\* C7 (as claimed): isLoading and error reflect the most recent call: while
\* the most recently started call is in flight isLoading is true, and once
\* it has resolved error is its error message (null if it succeeded), also
\* when an earlier call is in flight or resolves around it.
C7_ReflectsMostRecent ==
    calls /= <<>> =>
        /\ InFlight(MostRecent) => isLoading = TRUE
        /\ Done(MostRecent) => error = CallMessage(MostRecent)

\* every earlier call had resolved when the most recent call started
Serialized ==
    \A i \in 1..(MostRecent - 1) :
        Done(i) /\ ResolveIndex(i) < StartIndex(MostRecent)

\* C7 (amended): isLoading and error reflect the most recent call when no
\* earlier call was still in flight at its start: isLoading is true while it
\* is in flight, and once it has resolved isLoading is false and error is
\* its error message (null if it succeeded).
C7_ReflectsMostRecentSerialized ==
    (calls /= <<>> /\ Serialized) =>
        /\ InFlight(MostRecent) => (isLoading = TRUE /\ error = Null)
        /\ Done(MostRecent) =>
                (isLoading = FALSE /\ error = CallMessage(MostRecent))

C7_Witness ==
    /\ Len(calls) = 2
    /\ Serialized
    /\ ~Result(1).success
    /\ Done(2)
    /\ ~Result(2).success
    /\ CallMessage(2) /= CallMessage(1)
    /\ error = CallMessage(2)

----------------------------------------------------------------------------
(* Properties of the banner *)

\* the test sends that succeeded
Successes == {i \in 1..Len(calls) : Done(i) /\ Result(i).success}

\* the value stored under the current storageKey
Flag == localStorage[storageKey]

LastRead == CHOOSE n \in Reads : \A m \in Reads : m <= n

\* the flag under key k was written after the effect last read
WrittenSinceLastRead(k) ==
    \E n \in Writes : n > LastRead /\ storageLog[n].key = k

\* some hide timer of a successful send has fired
TimerHasFired == Cardinality(Successes) > timers

\* C8 (as claimed): the banner renders only when the flag is absent or not
\* "true": whenever the banner is visible, the value stored under storageKey
\* is not "true".
C8_VisibleOnlyUnflagged == BannerVisible => Flag /= "true"

\* C8 (amended): whenever the banner is visible, forceShow is set, or the
\* value stored under storageKey is not "true", or that value was written by
\* a successful test send after the effect last read it and the send's hide
\* timer is still pending.
C8_VisibleUnflaggedOrForced ==
    BannerVisible =>
        \/ forceShow
        \/ Flag /= "true"
        \/ (timers > 0 /\ WrittenSinceLastRead(storageKey))

\* the banner in the three seconds after a successful test send
C8_Witness ==
    /\ BannerVisible
    /\ ~forceShow
    /\ Flag = "true"
    /\ status = "success"

\* a failed test send leaves the storage and the banner's visibility alone
FailedSendLeavesBanner ==
    \A i \in 1..Len(calls) :
        (JustResolved(i)
            /\ ~ResultOf(calls[i].action, calls'[i].outcome).success) =>
                /\ localStorage' = localStorage
                /\ storageLog' = storageLog
                /\ timers' = timers
                /\ isConfigured' = isConfigured

\* C9 (as claimed): after a successful test send the flag under storageKey
\* is "true" from the moment the success is handled; the banner hides when
\* the timer fires and stays hidden afterwards; a failed test send neither
\* writes the flag nor hides the banner.
C9_FlagSetThenHidden ==
    [][/\ Successes' /= {} => Flag' = "true"
       /\ timers' < timers => isConfigured'
       /\ (TimerHasFired /\ isConfigured) => isConfigured'
       /\ FailedSendLeavesBanner]_vars

\* C9 (amended): after a successful test send the flag under the storageKey
\* the send was started with is "true" from the moment the success is
\* handled; the banner hides when the timer fires and stays hidden until
\* storageKey or forceShow changes, when the effect shows it again if
\* forceShow is set or the flag under the new key is not "true"; a failed
\* test send neither writes the flag nor hides the banner.
C9_FlagSetThenHiddenUntilProps ==
    [][/\ \A i \in Successes' :
            localStorage'[handlers'[i].storageKey] = "true"
       /\ timers' < timers => isConfigured'
       /\ (TimerHasFired /\ isConfigured /\ ~isConfigured') =>
            /\ <<storageKey', forceShow'>> /= <<storageKey, forceShow>>
            /\ forceShow' \/ Flag' /= "true"
       /\ FailedSendLeavesBanner]_vars

\* a test send succeeded, its timer fired and the banner is hidden
C9_Witness ==
    /\ Successes /= {}
    /\ TimerHasFired
    /\ timers = 0
    /\ isConfigured
    /\ Flag = "true"
    /\ \E i \in 1..Len(calls) : Done(i) /\ ~Result(i).success

\* C10 (as claimed): the flag is read once, at mount, and written at most
\* once, at the first successful test send, over any sequence of banner
\* events.
C10_ReadOnceWrittenOnce ==
    mounted =>
        /\ Cardinality(Reads) = 1
        /\ Cardinality(Writes) <= 1
        /\ Writes /= {} <=> Successes /= {}

\* C10 (amended): the flag is read at mount and once more at every change of
\* storageKey or forceShow, and it is written at every successful test send,
\* under the storageKey the send was started with, and never otherwise.
C10_ReadPerPropsWrittenPerSuccess ==
    /\ ~mounted => storageLog = <<>>
    /\ mounted =>
        /\ storageLog[1].op = "getItem"
        /\ Cardinality(Reads) = 1 + propChanges
        /\ Cardinality(Writes) = Cardinality(Successes)
        /\ \A n \in Writes : \E i \in Successes :
                storageLog[n].key = handlers[i].storageKey

\* two reads and two writes
C10_Witness ==
    /\ mounted
    /\ Cardinality(Reads) >= 2
    /\ Cardinality(Writes) >= 2
    /\ Cardinality(Successes) >= 2

----------------------------------------------------------------------------
(* Requests of the hooks *)

\* the requests issued for call i
RequestsOf(i) == {n \in 1..Len(requests) : requests[n].call = i}

\* C11: each invocation of a hook action issues exactly one network request,
\* whatever its outcome (none is added when the call resolves, failed or
\* not), and the request's `action` discriminator is that of the action
\* invoked: subscribe, unsubscribe, send, send-template, test.
C11_OneRequestPerCall ==
    /\ \A n \in 1..Len(requests) : requests[n].call \in 1..Len(calls)
    /\ \A i \in 1..Len(calls) :
        /\ Cardinality(RequestsOf(i)) = 1
        /\ \A n \in RequestsOf(i) :
            requests[n].action =
                CASE calls[i].action = "subscribe" -> "subscribe"
                  [] calls[i].action = "unsubscribe" -> "unsubscribe"
                  [] calls[i].action = "sendEmail" -> "send"
                  [] calls[i].action = "sendTemplate" -> "send-template"
                  [] calls[i].action = "sendTest" -> "test"

\* a sendTemplate call that failed on a non-2xx answer and a call that failed
\* in transport, both resolved, with one request each
C11_Witness ==
    /\ Len(calls) = 2
    /\ Done(1) /\ Done(2)
    /\ calls[1].action = "sendTemplate"
    /\ calls[1].outcome.kind = "response" /\ ~calls[1].outcome.ok
    /\ calls[2].outcome.kind = "reject"
    /\ Len(requests) = 2
    /\ requests[1] = [call |-> 1, action |-> "send-template"]

----------------------------------------------------------------------------
(* Validation in the banner *)

\* the text is empty once its leading and trailing spaces are removed
BlankText(s) == \A n \in 1..Len(s) : s[n] = " "

\* the text has no "@" in it
NoAtSign(s) == \A n \in 1..Len(s) : s[n] /= "@"

\* the text without its leading and trailing spaces
Trimmed(s) ==
    IF BlankText(s) THEN <<>>
    ELSE LET first == CHOOSE n \in 1..Len(s) :
                        s[n] /= " " /\ \A m \in 1..(n - 1) : s[m] = " "
             last == CHOOSE n \in 1..Len(s) :
                        s[n] /= " " /\ \A m \in (n + 1)..Len(s) : s[m] = " "
         IN  [n \in 1..(last - first + 1) |-> s[first + n - 1]]

\* C13: a click on the test button while the entered email is blank after
\* trimming or has no "@" sends no request: status becomes "error" with a
\* validation message, isLoading stays false and the local storage is left
\* as it is; a request is issued only for an email that passes both checks,
\* and it carries the trimmed email.
C13_InvalidEmailSendsNothing ==
    [][/\ (HandleTest /\ (BlankText(email) \/ NoAtSign(email))) =>
            /\ requests' = requests
            /\ calls' = calls
            /\ status' = "error"
            /\ message' = IF BlankText(email) THEN MsgEnterEmail
                          ELSE MsgBadFormat
            /\ isLoading' = FALSE
            /\ localStorage' = localStorage
            /\ storageLog' = storageLog
       /\ Len(requests') > Len(requests) =>
            /\ ~BlankText(email)
            /\ ~NoAtSign(email)
            /\ Len(calls') = Len(calls) + 1
            /\ calls'[Len(calls')].params = [to_email |-> Trimmed(email)]
            /\ requests'[Len(requests')] =
                    [call |-> Len(calls'), action |-> "test"]]_vars

\* after one test send with the trimmed address, a click on a text without
\* "@" was refused and sent nothing
C13_Witness ==
    /\ BannerVisible
    /\ email = <<"a">>
    /\ status = "error"
    /\ message = MsgBadFormat
    /\ isLoading = FALSE
    /\ Len(requests) = 1
    /\ Done(1)
    /\ calls[1].params = [to_email |-> <<"a", "@", "b">>]


----------------------------------------------------------------------------
(* Properties of SubscribeForm *)

\* submission i is settled in this step
JustSubmitted(i) ==
    /\ i \in 1..Len(submits)
    /\ submits[i].state = "inflight"
    /\ submits'[i].state = "done"

\* the calls of the callbacks made in this step
NewCallbacks == SubSeq(callbacks', Len(callbacks) + 1, Len(callbacks'))

\* the subscribe request returned a 2xx response with a JSON body
JsonOn2xx(o) ==
    o.kind = "response" /\ o.ok /\ o.body \in {"null", "object"}

BothCallbacksGiven == formProps.onSuccess /\ formProps.onError

\* C12: for every submission of a form that is given both callbacks, exactly
\* one callback is invoked, exactly once: onSuccess if and only if the
\* subscribe request returned a 2xx response with a JSON body, and otherwise
\* onError with the message the form displays as its error.
C12_ExactlyOneCallback ==
    [][\A i \in 1..MaxSubmits :
            (BothCallbacksGiven /\ JustSubmitted(i)) =>
                /\ Len(NewCallbacks) = 1
                /\ NewCallbacks[1].submit = i
                /\ NewCallbacks[1].callback = "onSuccess"
                        <=> JsonOn2xx(submits'[i].outcome)
                /\ NewCallbacks[1].callback = "onError"
                        <=> ~JsonOn2xx(submits'[i].outcome)
                /\ NewCallbacks[1].callback = "onError" =>
                        /\ formError' /= Null
                        /\ NewCallbacks[1].argument = formError']_vars

\* C14: the display states of the form exclude each other and success is
\* final: isSuccess implies error = null and isLoading = false, and once
\* isSuccess is true it stays true and no further request is issued.
C14_SuccessExclusiveAndFinal ==
    [][/\ formIsSuccess' => (formError' = Null /\ formIsLoading' = FALSE)
       /\ formIsSuccess => (formIsSuccess' /\ submits' = submits)]_vars

====
